---- MODULE Spec2Model ----
(***************************************************************************)
(* State-machine model of src/main.py (BotMesero): the three handlers      *)
(* start, handle_text and button, the three queries show_categories,       *)
(* show_products and show_most_ordered_product, and get_greeting.          *)
(*                                                                         *)
(* The program's own state is context.chat_data (one conversation history  *)
(* per chat). The database is read-only for the program, and the local     *)
(* hour is read from the clock. Every handler is one action; what it did   *)
(* (calls to the transport, the database session, the completion client,   *)
(* each with its arguments, in call order) is recorded in `event`.         *)
(*                                                                         *)
(* Texts are sequences of characters, so that lower(), strip(), the `in`   *)
(* test, startswith(), split() and int() are computed as the code computes *)
(* them. A text the code takes whole from a literal or from responses.json *)
(* is a one-element sequence naming it. Button labels are not modelled:    *)
(* a keyboard is the sequence of its buttons' callback_data.               *)
(***************************************************************************)
EXTENDS Integers, Sequences, FiniteSets, TLC

VARIABLES
    db,         \* the tables Category, Product, OrderProducts
    chat_data,  \* context.chat_data of every chat
    clock,      \* datetime.now().hour
    event       \* the last event handled and what its handler did

vars == <<db, chat_data, clock, event>>

---------------------------------------------------------------------------
\* Bounds of the model.

\* the completion path is taken while fewer than MaxTurns turns are stored
MaxTurns == 2
\* products 1..MaxProducts
MaxProducts == 2
\* at most MaxOrderLines rows in OrderProducts
MaxOrderLines == 4

\* two chats: one to follow, one to interleave with it
Chats == {1, 2}
ProductIds == 1..MaxProducts
\* category ids of one and of two decimal digits
CategoryIds == {9, 10}
Hours == 0..23

---------------------------------------------------------------------------
\* str methods.

LowerChar(ch) ==
    CASE ch = "A" -> "a" [] ch = "D" -> "d" [] ch = "E" -> "e"
      [] ch = "M" -> "m" [] ch = "N" -> "n" [] ch = "O" -> "o"
      [] ch = "P" -> "p" [] ch = "S" -> "s" [] ch = "Á" -> "á"
      [] ch = "Ú" -> "ú" [] ch = "U" -> "u"
      [] OTHER -> ch

\* str.lower()
Lower(s) ==
    [i \in 1..Len(s) |-> LowerChar(s[i])]

\* sub in s
Contains(s, sub) ==
    \E i \in 0..(Len(s) - Len(sub)) : SubSeq(s, i + 1, i + Len(sub)) = sub

\* s.startswith(prefix)
StartsWith(s, prefix) ==
    /\ Len(s) >= Len(prefix)
    /\ SubSeq(s, 1, Len(prefix)) = prefix

Whitespace == {" ", "\n", "\t"}

RECURSIVE LStrip(_)
LStrip(s) ==
    IF s # <<>> /\ Head(s) \in Whitespace THEN LStrip(Tail(s)) ELSE s

RECURSIVE RStrip(_)
RStrip(s) ==
    IF s # <<>> /\ s[Len(s)] \in Whitespace
    THEN RStrip(SubSeq(s, 1, Len(s) - 1))
    ELSE s

\* str.strip()
Strip(s) ==
    RStrip(LStrip(s))

\* s.split(sep): the fields between the separators, as a sequence
RECURSIVE Split(_, _)
Split(s, sep) ==
    IF \A i \in 1..Len(s) : s[i] # sep
    THEN <<s>>
    ELSE LET k == CHOOSE i \in 1..Len(s) :
                      /\ s[i] = sep
                      /\ \A j \in 1..(i - 1) : s[j] # sep
         IN  <<SubSeq(s, 1, k - 1)>> \o Split(SubSeq(s, k + 1, Len(s)), sep)

Digits == <<"0", "1", "2", "3", "4", "5", "6", "7", "8", "9">>

DigitValue(ch) ==
    (CHOOSE i \in 1..10 : Digits[i] = ch) - 1

\* whether int(s) returns (it raises ValueError otherwise)
IsInt(s) ==
    /\ s # <<>>
    /\ \A i \in 1..Len(s) : \E d \in 1..10 : Digits[d] = s[i]

\* int(s)
RECURSIVE ParseInt(_)
ParseInt(s) ==
    IF Len(s) = 1
    THEN DigitValue(s[1])
    ELSE 10 * ParseInt(SubSeq(s, 1, Len(s) - 1)) + DigitValue(s[Len(s)])

\* str(n), and f"{n}", of a natural number
RECURSIVE Str(_)
Str(n) ==
    IF n < 10
    THEN <<Digits[n + 1]>>
    ELSE Str(n \div 10) \o <<Digits[(n % 10) + 1]>>

\* f"{price:.2f}" of a Numeric(10, 2) price given in hundredths
Format2f(cents) ==
    Str(cents \div 100) \o <<".">> \o
    <<Digits[((cents % 100) \div 10) + 1], Digits[(cents % 10) + 1]>>

---------------------------------------------------------------------------
\* Literals of the program.

\* line 153
kw_menu ==
    <<"m", "e", "n", "ú">>

kw_producto_mas_pedido ==
    <<"p", "r", "o", "d", "u", "c", "t", "o", " ", "m", "á", "s", " ",
      "p", "e", "d", "i", "d", "o">>

kw_orden_mas_pedida ==
    <<"o", "r", "d", "e", "n", " ", "m", "á", "s", " ",
      "p", "e", "d", "i", "d", "a">>

kw_producto_mas_vendido ==
    <<"p", "r", "o", "d", "u", "c", "t", "o", " ", "m", "á", "s", " ",
      "v", "e", "n", "d", "i", "d", "o">>

\* the list without its last phrasing
most_ordered_keywords_short ==
    {kw_producto_mas_pedido, kw_orden_mas_pedida}

\* the list of lines 159-160
most_ordered_keywords ==
    {kw_producto_mas_pedido, kw_orden_mas_pedida, kw_producto_mas_vendido}

\* the fixed apology of line 193
Apology ==
    <<"Lo siento, algo salió mal al procesar tu solicitud.">>

NoCategoriesText ==
    <<"No hay categorías disponibles.">>

SelectCategoryText ==
    <<"Selecciona una categoría:">>

NoProductsText ==
    <<"No hay productos disponibles en esta categoría.">>

SelectProductText ==
    <<"Selecciona un producto:">>

NoMostOrderedText ==
    <<"No se encontró información sobre el producto más pedido.">>

\* responses[key], a template of text/responses.json
responses(key) ==
    <<"responses", key>>

\* callback_data: words, "_" and decimal digits
tok_menu == <<"menu">>
tok_pedido == <<"pedido">>
tok_otros == <<"otros">>
tok_tiempo_pedido == <<"tiempo", "_", "pedido">>
tok_producto_mas_pedido == <<"producto", "_", "mas", "_", "pedido">>
tok_orden_mal == <<"orden", "_", "mal">>
tok_app_no_abre == <<"app", "_", "no", "_", "abre">>
tok_info_proporcionada == <<"info", "_", "proporcionada">>
tok_return_start == <<"return", "_", "start">>
tok_return_otros == <<"return", "_", "otros">>
tok_return_categories == <<"return", "_", "categories">>
category_prefix == <<"category", "_">>

\* f"category_{category.id}"
tok_category(id) ==
    category_prefix \o Str(id)

\* f"product_{product.id}"
tok_product(id) ==
    <<"product", "_">> \o Str(id)

\* every callback_data a button of the program carries
Tokens ==
    {tok_menu, tok_pedido, tok_otros, tok_tiempo_pedido, tok_producto_mas_pedido,
     tok_orden_mal, tok_app_no_abre, tok_info_proporcionada, tok_return_start,
     tok_return_otros, tok_return_categories}
    \cup {tok_category(i) : i \in CategoryIds}
    \cup {tok_product(i) : i \in ProductIds}

\* a conversation turn
Turn(role, content) ==
    [role |-> role, content |-> content]

system_context ==
    Turn("system", <<"rules">>)

---------------------------------------------------------------------------
\* What a handler did: its calls, in order.

\* no reply_markup argument
NoMarkup == <<>>

\* one call: its arguments, and whether it raised
Effect(op, text, reply_markup, messages, raised) ==
    [op |-> op, text |-> text, reply_markup |-> reply_markup,
     messages |-> messages, raised |-> raised]

\* a call of no recorded argument that returned
Call(op) ==
    Effect(op, <<>>, NoMarkup, <<>>, FALSE)

\* channel(text, reply_markup=reply_markup): a message shown to the user
Render(channel, text, reply_markup) ==
    Effect(channel, text, reply_markup, <<>>, FALSE)

RenderOps ==
    {"reply_text", "edit_text", "edit_message_text"}

\* one way a handler can run: how it ended and what it did
Run(outcome, trace) ==
    [outcome |-> outcome, trace |-> trace]

---------------------------------------------------------------------------
\* The database: the columns the queries read.

\* a row of Category
CategoryRow(id) ==
    [id |-> id]

\* a row of Product; its name and price follow from its id
ProductRow(id, categoryId) ==
    [id |-> id, name |-> <<"P">> \o Str(id), price |-> 100 * id + 50,
     categoryId |-> categoryId]

\* a row of OrderProducts
OrderProductsRow(id, productId) ==
    [id |-> id, productId |-> productId]

\* rows n+1 .. n+k of OrderProducts, all of one product
OrderLinesOf(productId, n, k) ==
    {OrderProductsRow(n + i, productId) : i \in 1..k}

\* every sequence that lists the rows of S once each: a result in some order
Orderings(S) ==
    {s \in [1..Cardinality(S) -> S] :
        \A i, j \in 1..Cardinality(S) : i # j => s[i] # s[j]}

\* select(Category): the rows a scan can return
select_categories(d) ==
    Orderings(d.Category)

\* the select without its filter
select_products_unfiltered(d, category_id) ==
    Orderings(d.Product)

\* select(Product).filter(Product.categoryId == category_id)
select_products(d, category_id) ==
    Orderings({p \in d.Product : p.categoryId = category_id})

\* count(OrderProducts.id) of the group of product p after the join
OrderLineCount(d, p) ==
    Cardinality({o \in d.OrderProducts : o.productId = p.id})

\* the select ordering by ascending count
select_most_ordered_ascending(d) ==
    LET joined == {p \in d.Product : OrderLineCount(d, p) > 0}
        bottom == {p \in joined :
                      \A q \in joined : OrderLineCount(d, p) <= OrderLineCount(d, q)}
    IN  IF joined = {} THEN {<<>>} ELSE {<<p>> : p \in bottom}

\* select(Product).join(OrderProducts).group_by(Product.id)
\*     .order_by(func.count(OrderProducts.id).desc()).limit(1):
\* the join drops the products without order line; ties are the engine's choice
select_most_ordered(d) ==
    LET joined == {p \in d.Product : OrderLineCount(d, p) > 0}
        top == {p \in joined :
                   \A q \in joined : OrderLineCount(d, q) <= OrderLineCount(d, p)}
    IN  IF joined = {} THEN {<<>>} ELSE {<<p>> : p \in top}

\* session.execute(stmt): it raises, or returns one of the possible results
Execute(results) ==
    {[raised |-> TRUE, rows |-> <<>>]}
    \cup {[raised |-> FALSE, rows |-> r] : r \in results}

\* async with SessionLocal() as session: async with session.begin(): execute
Session(stmt, q) ==
    <<Call("session_open"),
      Effect("execute", <<stmt>>, NoMarkup, <<>>, q.raised),
      Call("session_close")>>

---------------------------------------------------------------------------
\* The queries and their screens.

\* the keyboard of lines 276-281
categories_keyboard(categories) ==
    [i \in 1..Len(categories) |-> tok_category(categories[i].id)]
    \o <<tok_return_start>>

show_categories_run(channel, q) ==
    IF q.raised
    THEN Run("raised", Session("select Category", q))
    ELSE IF q.rows = <<>>
    THEN Run("ok", Session("select Category", q)
                   \o <<Render(channel, NoCategoriesText, NoMarkup)>>)
    ELSE Run("ok", Session("select Category", q)
                   \o <<Render(channel, SelectCategoryText,
                               categories_keyboard(q.rows))>>)

show_categories(channel, d) ==
    {show_categories_run(channel, q) : q \in Execute(select_categories(d))}

\* the keyboard of lines 299-305
products_keyboard(products) ==
    [i \in 1..Len(products) |-> tok_product(products[i].id)]
    \o <<tok_return_categories>>

show_products_run(channel, q) ==
    IF q.raised
    THEN Run("raised", Session("select Product", q))
    ELSE IF q.rows = <<>>
    THEN Run("ok", Session("select Product", q)
                   \o <<Render(channel, NoProductsText, NoMarkup)>>)
    ELSE Run("ok", Session("select Product", q)
                   \o <<Render(channel, SelectProductText,
                               products_keyboard(q.rows))>>)

show_products(channel, d, category_id) ==
    {show_products_run(channel, q) :
        q \in Execute(select_products(d, category_id))}

\* the text of line 326
most_ordered_text(product) ==
    <<"El producto más pedido es ">> \o product.name
    \o <<" a un precio de $">> \o Format2f(product.price) \o <<".">>

\* show_most_ordered_product answering inside the transaction
show_most_ordered_product_run_in_session(channel, q) ==
    IF q.raised
    THEN Run("raised", Session("select most ordered Product", q))
    ELSE Run("ok", SubSeq(Session("select most ordered Product", q), 1, 2)
                   \o <<Render(channel,
                               IF q.rows # <<>>
                               THEN most_ordered_text(q.rows[1])
                               ELSE NoMostOrderedText,
                               <<tok_return_otros>>),
                        Call("session_close")>>)

show_most_ordered_product_run(channel, q) ==
    IF q.raised
    THEN Run("raised", Session("select most ordered Product", q))
    ELSE Run("ok", Session("select most ordered Product", q)
                   \o <<Render(channel,
                               IF q.rows # <<>>
                               THEN most_ordered_text(q.rows[1])
                               ELSE NoMostOrderedText,
                               <<tok_return_otros>>)>>)

show_most_ordered_product(channel, d) ==
    {show_most_ordered_product_run(channel, q) :
        q \in Execute(select_most_ordered(d))}

---------------------------------------------------------------------------
\* The handlers.

\* get_greeting counting noon as morning
get_greeting_noon_morning(current_hour) ==
    IF 5 <= current_hour /\ current_hour <= 12
    THEN "Buenos días"
    ELSE IF 12 <= current_hour /\ current_hour < 18
    THEN "Buenas tardes"
    ELSE "Buenas noches"

get_greeting(current_hour) ==
    IF 5 <= current_hour /\ current_hour < 12
    THEN "Buenos días"
    ELSE IF 12 <= current_hour /\ current_hour < 18
    THEN "Buenas tardes"
    ELSE "Buenas noches"

\* the keyboard of lines 134-138
start_keyboard ==
    <<tok_menu, tok_pedido, tok_otros>>

\* start greeting on the reply channel whatever the update carries
start_run_replies_anyway(origin, current_hour) ==
    LET channel == IF origin = "callback_query" THEN "edit_text" ELSE "reply_text"
    IN  Run("ok",
            <<Effect("get_greeting", <<get_greeting(current_hour)>>,
                     NoMarkup, <<>>, FALSE),
              Render(channel, responses("greeting_message"), NoMarkup),
              Render(channel, responses("menu_message"), start_keyboard)>>)

\* start(update, context); origin tells which of update.message and
\* update.callback_query is set
start_run(origin, current_hour) ==
    IF origin \notin {"message", "callback_query"}
    THEN Run("ok", <<Call("logger.warning")>>)
    ELSE LET channel == IF origin = "message" THEN "reply_text" ELSE "edit_text"
         IN  Run("ok",
                 <<Effect("get_greeting", <<get_greeting(current_hour)>>,
                          NoMarkup, <<>>, FALSE),
                   Render(channel, responses("greeting_message"), NoMarkup),
                   Render(channel, responses("menu_message"), start_keyboard)>>)

get_otros_keyboard ==
    <<tok_tiempo_pedido, tok_producto_mas_pedido, tok_orden_mal,
      tok_app_no_abre, tok_info_proporcionada, tok_return_start>>

\* a canned answer whose button always leads to the start screen
canned_run_to_start(key, back) ==
    Run("ok", <<Render("edit_message_text", responses(key), <<tok_return_start>>)>>)

\* a canned answer with one button
canned_run(key, back) ==
    Run("ok", <<Render("edit_message_text", responses(key), <<back>>)>>)

\* the FAQ root, lines 230-231 and 257-258
otros_run ==
    Run("ok", <<Render("edit_message_text", responses("other_questions_message"),
                       get_otros_keyboard)>>)

\* category_runs reading one digit of the id
category_runs_last_digit(data, d) ==
    LET field == Split(data, "_")[2]
    IN  IF IsInt(field)
        THEN show_products("edit_message_text", d,
                           ParseInt(<<field[Len(field)]>>))
        ELSE {Run("raised", <<>>)}

\* the branch of category_<id>, lines 222-223
category_runs(data, d) ==
    LET field == Split(data, "_")[2]
    IN  IF IsInt(field)
        THEN show_products("edit_message_text", d, ParseInt(field))
        ELSE {Run("raised", <<>>)}

\* dispatch taking the back button of a product list to the start screen
dispatch_return_to_start(data, d, current_hour) ==
    IF data = tok_menu
    THEN show_categories("edit_message_text", d)
    ELSE IF StartsWith(data, category_prefix)
    THEN category_runs(data, d)
    ELSE IF data = tok_pedido
    THEN {canned_run("pedido_response", tok_return_start)}
    ELSE IF data = tok_otros
    THEN {otros_run}
    ELSE IF data = tok_tiempo_pedido
    THEN {canned_run("tiempo_pedido_response", tok_return_otros)}
    ELSE IF data = tok_producto_mas_pedido
    THEN show_most_ordered_product("edit_message_text", d)
    ELSE IF data = tok_orden_mal
    THEN {canned_run("orden_mal_response", tok_return_otros)}
    ELSE IF data = tok_app_no_abre
    THEN {canned_run("app_no_abre_response", tok_return_otros)}
    ELSE IF data = tok_info_proporcionada
    THEN {canned_run("info_proporcionada_response", tok_return_otros)}
    ELSE IF data \in {tok_return_start, tok_return_categories}
    THEN {start_run("callback_query", current_hour)}
    ELSE IF data = tok_return_otros
    THEN {otros_run}
    ELSE {Run("ok", <<>>)}

\* the dispatch of button, lines 219-261: every way it can run on data
dispatch(data, d, current_hour) ==
    IF data = tok_menu
    THEN show_categories("edit_message_text", d)
    ELSE IF StartsWith(data, category_prefix)
    THEN category_runs(data, d)
    ELSE IF data = tok_pedido
    THEN {canned_run("pedido_response", tok_return_start)}
    ELSE IF data = tok_otros
    THEN {otros_run}
    ELSE IF data = tok_tiempo_pedido
    THEN {canned_run("tiempo_pedido_response", tok_return_otros)}
    ELSE IF data = tok_producto_mas_pedido
    THEN show_most_ordered_product("edit_message_text", d)
    ELSE IF data = tok_orden_mal
    THEN {canned_run("orden_mal_response", tok_return_otros)}
    ELSE IF data = tok_app_no_abre
    THEN {canned_run("app_no_abre_response", tok_return_otros)}
    ELSE IF data = tok_info_proporcionada
    THEN {canned_run("info_proporcionada_response", tok_return_otros)}
    ELSE IF data = tok_return_start
    THEN {start_run("callback_query", current_hour)}
    ELSE IF data = tok_return_otros
    THEN {otros_run}
    ELSE IF data = tok_return_categories
    THEN show_categories("edit_message_text", d)
    ELSE {Run("ok", <<>>)}

\* button acknowledging the callback after the dispatch
button_runs_answer_last(data, d, current_hour) ==
    {Run(r.outcome,
         IF r.outcome = "ok" THEN r.trace \o <<Call("answer")>> ELSE r.trace) :
        r \in dispatch(data, d, current_hour)}

\* button(update, context): query.answer(), then the dispatch
button_runs(data, d, current_hour) ==
    {Run(r.outcome, <<Call("answer")>> \o r.trace) :
        r \in dispatch(data, d, current_hour)}

\* a dict without key
EmptyDict ==
    [k \in {} |-> <<>>]

\* context.chat_data["conversation_history"], [] when the key is absent
History(cd) ==
    IF "conversation_history" \in DOMAIN cd
    THEN cd["conversation_history"]
    ELSE <<>>

\* a run of handle_text with the chat_data it leaves
TextRun(run, cd) ==
    [outcome |-> run.outcome, trace |-> run.trace, chat_data |-> cd]

\* the contents the model lets a completion return, before .strip()
RawCompletions ==
    {<<" ", "s", "i", "\n">>, <<"n", "o">>}

\* openai.ChatCompletion.create(...): it raises, or returns a content
Completions ==
    {[raised |-> TRUE, content |-> <<>>]}
    \cup {[raised |-> FALSE, content |-> r] : r \in RawCompletions}

\* completion_run keeping a failed attempt as an empty assistant turn
completion_run_failed_turn(history, completion, send_raised) ==
    LET messages == <<system_context>> \o history
        create == Effect("ChatCompletion.create", completion.content, NoMarkup,
                         messages, completion.raised)
        gpt_response == Strip(completion.content)
    IN  TextRun(Run("ok",
                    <<create>>
                    \o IF completion.raised
                       THEN <<Render("reply_text", Apology, NoMarkup)>>
                       ELSE <<Effect("reply_text", gpt_response, NoMarkup, <<>>,
                                     send_raised)>>
                            \o IF send_raised
                               THEN <<Render("reply_text", Apology, NoMarkup)>>
                               ELSE <<>>),
                [conversation_history |->
                    Append(history, Turn("assistant", gpt_response))])

\* completion_run building the prompt in the stored list itself
completion_run_stored_prompt(history, completion, send_raised) ==
    LET messages == <<system_context>> \o history
        create == Effect("ChatCompletion.create", completion.content, NoMarkup,
                         messages, completion.raised)
        gpt_response == Strip(completion.content)
    IN  IF completion.raised
        THEN TextRun(Run("ok", <<create, Render("reply_text", Apology, NoMarkup)>>),
                     [conversation_history |-> messages])
        ELSE TextRun(Run("ok",
                         <<create,
                           Effect("reply_text", gpt_response, NoMarkup, <<>>,
                                  send_raised)>>
                         \o IF send_raised
                            THEN <<Render("reply_text", Apology, NoMarkup)>>
                            ELSE <<>>),
                     [conversation_history |->
                         Append(messages, Turn("assistant", gpt_response))])

\* completion_run replying with the content as returned, before .strip()
completion_run_raw_reply(history, completion, send_raised) ==
    LET messages == <<system_context>> \o history
        create == Effect("ChatCompletion.create", completion.content, NoMarkup,
                         messages, completion.raised)
        gpt_response == Strip(completion.content)
    IN  IF completion.raised
        THEN TextRun(Run("ok", <<create, Render("reply_text", Apology, NoMarkup)>>),
                     [conversation_history |-> history])
        ELSE TextRun(Run("ok",
                         <<create,
                           Effect("reply_text", completion.content, NoMarkup, <<>>,
                                  send_raised)>>
                         \o IF send_raised
                            THEN <<Render("reply_text", Apology, NoMarkup)>>
                            ELSE <<>>),
                     [conversation_history |->
                         Append(history, Turn("assistant", gpt_response))])

\* completion_run storing the apology as the assistant's turn
completion_run_apology_turn(history, completion, send_raised) ==
    LET messages == <<system_context>> \o history
        create == Effect("ChatCompletion.create", completion.content, NoMarkup,
                         messages, completion.raised)
        gpt_response == Strip(completion.content)
    IN  IF completion.raised
        THEN TextRun(Run("ok", <<create, Render("reply_text", Apology, NoMarkup)>>),
                     [conversation_history |-> history])
        ELSE TextRun(Run("ok",
                         <<create,
                           Effect("reply_text", gpt_response, NoMarkup, <<>>,
                                  send_raised)>>
                         \o IF send_raised
                            THEN <<Render("reply_text", Apology, NoMarkup)>>
                            ELSE <<>>),
                     [conversation_history |->
                         Append(history, Turn("assistant", gpt_response))
                         \o IF send_raised
                            THEN <<Turn("assistant", Apology)>>
                            ELSE <<>>])

\* lines 174-193, after the user turn was appended: completion is what the
\* completion call does (the recorded text is the content it returned),
\* send_raised whether reply_text(gpt_response) raises
completion_run(history, completion, send_raised) ==
    LET messages == <<system_context>> \o history
        create == Effect("ChatCompletion.create", completion.content, NoMarkup,
                         messages, completion.raised)
        gpt_response == Strip(completion.content)
    IN  IF completion.raised
        THEN TextRun(Run("ok", <<create, Render("reply_text", Apology, NoMarkup)>>),
                     [conversation_history |-> history])
        ELSE TextRun(Run("ok",
                         <<create,
                           Effect("reply_text", gpt_response, NoMarkup, <<>>,
                                  send_raised)>>
                         \o IF send_raised
                            THEN <<Render("reply_text", Apology, NoMarkup)>>
                            ELSE <<>>),
                     [conversation_history |->
                         Append(history, Turn("assistant", gpt_response))])

\* lines 165-193
completion_path(cd, user_message) ==
    LET history == Append(History(cd), Turn("user", user_message))
    IN  {completion_run(history, completion, send_raised) :
            completion \in Completions, send_raised \in BOOLEAN}

\* handle_text testing the message as typed, without .lower()
handle_text_runs_as_typed(cd, user_message, d) ==
    IF Contains(user_message, kw_menu)
    THEN {TextRun(r, cd) : r \in show_categories("reply_text", d)}
    ELSE IF \E keyword \in most_ordered_keywords :
                Contains(user_message, keyword)
    THEN {TextRun(r, cd) : r \in show_most_ordered_product("reply_text", d)}
    ELSE completion_path(cd, user_message)

\* handle_text catching the failure of a keyword route like a failed
\* completion
handle_text_runs_apologises(cd, user_message, d) ==
    LET caught(r) == IF r.outcome = "raised"
                     THEN Run("ok", r.trace \o <<Render("reply_text", Apology,
                                                        NoMarkup)>>)
                     ELSE r
    IN  IF Contains(Lower(user_message), kw_menu)
        THEN {TextRun(caught(r), cd) : r \in show_categories("reply_text", d)}
        ELSE IF \E keyword \in most_ordered_keywords :
                    Contains(Lower(user_message), keyword)
        THEN {TextRun(caught(r), cd) :
                 r \in show_most_ordered_product("reply_text", d)}
        ELSE completion_path(cd, user_message)

\* handle_text storing the user turn before it looks for the keywords
handle_text_runs_stores_first(cd, user_message, d) ==
    LET stored == [conversation_history |->
                      Append(History(cd), Turn("user", user_message))]
    IN  IF Contains(Lower(user_message), kw_menu)
        THEN {TextRun(r, stored) : r \in show_categories("reply_text", d)}
        ELSE IF \E keyword \in most_ordered_keywords :
                    Contains(Lower(user_message), keyword)
        THEN {TextRun(r, stored) :
                 r \in show_most_ordered_product("reply_text", d)}
        ELSE completion_path(cd, user_message)

\* handle_text(update, context): every way it can run on user_message
handle_text_runs(cd, user_message, d) ==
    IF Contains(Lower(user_message), kw_menu)
    THEN {TextRun(r, cd) : r \in show_categories("reply_text", d)}
    ELSE IF \E keyword \in most_ordered_keywords :
                Contains(Lower(user_message), keyword)
    THEN {TextRun(r, cd) : r \in show_most_ordered_product("reply_text", d)}
    ELSE completion_path(cd, user_message)

---------------------------------------------------------------------------
\* The inputs of the model.

\* "hola"
msg_hola ==
    <<"h", "o", "l", "a">>

\* "menu", without the accent
msg_menu_plain ==
    <<"m", "e", "n", "u">>

\* "MENÚ"
msg_MENU ==
    <<"M", "E", "N", "Ú">>

\* "ver Menú hoy"
msg_ver_Menu_hoy ==
    <<"v", "e", "r", " ", "M", "e", "n", "ú", " ", "h", "o", "y">>

\* "el menú"
msg_el_menu ==
    <<"e", "l", " ", "m", "e", "n", "ú">>

\* "el Producto MÁS Pedido?"
msg_Producto_Mas_Pedido ==
    <<"e", "l", " ", "P", "r", "o", "d", "u", "c", "t", "o", " ", "M", "Á", "S",
      " ", "P", "e", "d", "i", "d", "o", "?">>

\* "orden más pedida"
msg_orden_mas_pedida ==
    kw_orden_mas_pedida

\* "tu producto más vendido"
msg_producto_mas_vendido ==
    <<"t", "u", " ">> \o kw_producto_mas_vendido

\* "producto más pedido del menú"
msg_pedido_del_menu ==
    kw_producto_mas_pedido \o <<" ", "d", "e", "l", " ">> \o kw_menu

\* the free texts users send
UserMessages ==
    {msg_hola, msg_menu_plain, msg_MENU, msg_ver_Menu_hoy, msg_el_menu,
     msg_Producto_Mas_Pedido, msg_orden_mas_pedida, msg_producto_mas_vendido,
     msg_pedido_del_menu}

\* what an update carries: update.message, update.callback_query, or neither
Origins ==
    {"message", "callback_query", "none"}

\* a database from its categories, each product's category (0: no such
\* product) and each product's number of order lines
RECURSIVE LinesBelow(_, _)
LinesBelow(n, p) ==
    IF p <= 1 THEN 0 ELSE LinesBelow(n, p - 1) + n[p - 1]

Database(cats, category_of, n) ==
    [Category |-> {CategoryRow(i) : i \in cats},
     Product |-> {ProductRow(p, category_of[p]) :
                     p \in {q \in ProductIds : category_of[q] # 0}},
     OrderProducts |-> UNION {OrderLinesOf(p, LinesBelow(n, p), n[p]) :
                                 p \in ProductIds}]

\* order lines reference existing products, at most MaxOrderLines in all
LineCounts(category_of) ==
    {n \in [ProductIds -> 0..MaxOrderLines] :
        /\ \A p \in ProductIds : category_of[p] = 0 => n[p] = 0
        /\ LinesBelow(n, MaxProducts + 1) <= MaxOrderLines}

\* every content of Category and Product within the bounds, without order
\* line; a product's category exists
Catalogs ==
    UNION {{Database(cats, category_of, [p \in ProductIds |-> 0]) :
               category_of \in [ProductIds -> cats \cup {0}]} :
              cats \in SUBSET CategoryIds}

\* every content of Product and OrderProducts within the bounds, the
\* products in category 9
OrderBooks ==
    UNION {{Database({9}, category_of, n) : n \in LineCounts(category_of)} :
              category_of \in [ProductIds -> {0, 9}]}

\* no row at all
EmptyDb ==
    [Category |-> {}, Product |-> {}, OrderProducts |-> {}]

\* P1 with three order lines and P2 with one, both of category 9; category 10
\* has no product
DemoDb ==
    [Category |-> {CategoryRow(9), CategoryRow(10)},
     Product |-> {ProductRow(1, 9), ProductRow(2, 9)},
     OrderProducts |-> OrderLinesOf(1, 0, 3) \cup OrderLinesOf(2, 3, 1)]

Fixtures ==
    {EmptyDb, DemoDb}

---------------------------------------------------------------------------
\* The state machine.

Event(handler, chat, origin, data, run) ==
    [handler |-> handler, chat |-> chat, origin |-> origin, data |-> data,
     outcome |-> run.outcome, trace |-> run.trace]

\* before the first event
NoEvent ==
    Event("none", 0, "none", <<>>, Run("ok", <<>>))

RECURSIVE TurnsOf(_)
TurnsOf(cs) ==
    IF cs = {}
    THEN 0
    ELSE LET c == CHOOSE x \in cs : TRUE
         IN  Len(History(chat_data[c])) + TurnsOf(cs \ {c})

\* the turns stored in all chats
TotalTurns ==
    TurnsOf(Chats)

InitWith(dbs, hours) ==
    /\ db \in dbs
    /\ chat_data = [c \in Chats |-> EmptyDict]
    /\ clock \in hours
    /\ event = NoEvent

\* the /start command, or an update start cannot place
start(c, origin) ==
    /\ event' = Event("start", c, origin, <<>>, start_run(origin, clock))
    /\ UNCHANGED <<db, chat_data, clock>>

\* a button press carrying callback_data data
button(c, data) ==
    /\ \E r \in button_runs(data, db, clock) :
           event' = Event("button", c, "callback_query", data, r)
    /\ UNCHANGED <<db, chat_data, clock>>

\* handle_text keeping one history for all chats
handle_text_shared(c, user_message, limit) ==
    /\ \E r \in handle_text_runs(chat_data[c], user_message, db) :
           /\ r.chat_data # chat_data[c] => TotalTurns < limit
           /\ chat_data' = IF r.chat_data # chat_data[c]
                           THEN [x \in Chats |-> r.chat_data]
                           ELSE chat_data
           /\ event' = Event("handle_text", c, "message", user_message, r)
    /\ UNCHANGED <<db, clock>>

\* a free text; the completion path is open while fewer than limit turns
\* are stored
handle_text(c, user_message, limit) ==
    /\ \E r \in handle_text_runs(chat_data[c], user_message, db) :
           /\ r.chat_data # chat_data[c] => TotalTurns < limit
           /\ chat_data' = [chat_data EXCEPT ![c] = r.chat_data]
           /\ event' = Event("handle_text", c, "message", user_message, r)
    /\ UNCHANGED <<db, clock>>

Init ==
    InitWith(Fixtures, {12})

Next ==
    \E c \in Chats :
        \/ \E origin \in Origins : start(c, origin)
        \/ \E data \in Tokens : button(c, data)
        \/ \E user_message \in UserMessages : handle_text(c, user_message, MaxTurns)

Spec ==
    Init /\ [][Next]_vars

\* the events that leave every history alone
Navigation ==
    \E c \in Chats :
        \/ \E origin \in Origins : start(c, origin)
        \/ \E data \in Tokens : button(c, data)
        \/ \E user_message \in UserMessages : handle_text(c, user_message, 0)

\* every content of Category and Product
InitCatalog ==
    InitWith(Catalogs, {12})

SpecCatalog ==
    InitCatalog /\ [][Navigation]_vars

\* every content of OrderProducts
InitOrders ==
    InitWith(OrderBooks, {12})

SpecOrders ==
    InitOrders /\ [][Navigation]_vars

\* every local hour, the start screen only
InitClock ==
    InitWith(Fixtures, Hours)

NextClock ==
    \E c \in Chats : \E origin \in Origins : start(c, origin)

SpecClock ==
    InitClock /\ [][NextClock]_vars

---------------------------------------------------------------------------
\* Reading an event.

IsRender(e) ==
    e.op \in RenderOps

IsCreate(e) ==
    e.op = "ChatCompletion.create"

\* the messages the handler sent or edited, in order
RendersOf(trace) ==
    SelectSeq(trace, IsRender)

\* the completion calls the handler made, in order
CreatesOf(trace) ==
    SelectSeq(trace, IsCreate)

\* the database statements the handler executed that returned
ReturnedQueries(trace) ==
    {trace[i].text : i \in {j \in 1..Len(trace) :
                               trace[j].op = "execute" /\ ~trace[j].raised}}

\* the statements the handler executed
Queries(trace) ==
    {trace[i].text : i \in {j \in 1..Len(trace) : trace[j].op = "execute"}}

\* the last message of a trace that has one
LastRender(trace) ==
    RendersOf(trace)[Len(RendersOf(trace))]

\* the upper and lower case forms of a character
CaseForms(ch) ==
    CASE ch = "m" -> {"m", "M"} [] ch = "e" -> {"e", "E"}
      [] ch = "n" -> {"n", "N"} [] ch = "ú" -> {"ú", "Ú"}
      [] OTHER -> {ch}

\* text holds word at some place, each letter in either case
HoldsInAnyCase(text, word) ==
    \E i \in 0..(Len(text) - Len(word)) :
        \A k \in 1..Len(word) : text[i + k] \in CaseForms(word[k])

\* x is raw without the whitespace at its two ends
IsTrimOf(x, raw) ==
    \E i, j \in 0..Len(raw) :
        /\ i + Len(x) + j = Len(raw)
        /\ \A k \in 1..i : raw[k] \in Whitespace
        /\ \A k \in 1..j : raw[Len(raw) + 1 - k] \in Whitespace
        /\ x = SubSeq(raw, i + 1, i + Len(x))
        /\ x # <<>> => x[1] \notin Whitespace /\ x[Len(x)] \notin Whitespace

\* the step is handle_text in chat c taking the completion path
CompletionStep(c) ==
    /\ event'.handler = "handle_text"
    /\ event'.chat = c
    /\ CreatesOf(event'.trace) # <<>>

---------------------------------------------------------------------------
\* C1: when the completion call of handle_text raises, the one message sent
\* is the fixed apology, and the chat's history is the history before the
\* event plus one user turn holding the message: no assistant turn.
C1_FailedCompletion ==
    [][\A c \in Chats :
          (CompletionStep(c) /\ CreatesOf(event'.trace)[1].raised) =>
             /\ RendersOf(event'.trace) = <<Render("reply_text", Apology, NoMarkup)>>
             /\ History(chat_data'[c])
                  = Append(History(chat_data[c]), Turn("user", event'.data))]_vars

\* a completion failed in a chat that already had a history
C1_Witness ==
    /\ event.handler = "handle_text"
    /\ CreatesOf(event.trace) # <<>>
    /\ CreatesOf(event.trace)[1].raised
    /\ Len(History(chat_data[event.chat])) >= 2

\* the one message of the event is the category listing of the database
ShowsCategoryListing(channel) ==
    /\ Len(RendersOf(event.trace)) = 1
    /\ LET r == LastRender(event.trace)
       IN  /\ r.op = channel
           /\ IF db.Category = {}
              THEN r.text = NoCategoriesText /\ r.reply_markup = NoMarkup
              ELSE /\ r.text = SelectCategoryText
                   /\ Len(r.reply_markup) = Cardinality(db.Category) + 1
                   /\ {r.reply_markup[i] : i \in 1..Len(r.reply_markup)}
                        = {tok_category(row.id) : row \in db.Category}
                          \cup {tok_return_start}

\* the one message of the event is the most-ordered-product answer
ShowsMostOrderedAnswer(channel) ==
    /\ Len(RendersOf(event.trace)) = 1
    /\ LET r == LastRender(event.trace)
       IN  /\ r.op = channel
           /\ r.reply_markup = <<tok_return_otros>>
           /\ \/ r.text = NoMostOrderedText
              \/ \E p \in db.Product : r.text = most_ordered_text(p)

\* the event ran the one statement stmt and nothing else against the
\* database; it ended well exactly when the statement returned
RanQuery(stmt) ==
    /\ Queries(event.trace) = {<<stmt>>}
    /\ event.outcome = "ok" <=> ReturnedQueries(event.trace) = {<<stmt>>}
    /\ event.outcome # "ok" => RendersOf(event.trace) = <<>>

\* C2: a free text holding "menú" anywhere, in any letter case, is routed to
\* the category listing (rendered whenever the query returns), and no
\* completion call is made during the event.
C2_MenuRoute ==
    (event.handler = "handle_text" /\ HoldsInAnyCase(event.data, kw_menu)) =>
        /\ CreatesOf(event.trace) = <<>>
        /\ RanQuery("select Category")
        /\ event.outcome = "ok" => ShowsCategoryListing("reply_text")

\* "MENÚ" in capitals got the category listing
C2_Witness ==
    /\ event.handler = "handle_text"
    /\ event.data = msg_MENU
    /\ event.outcome = "ok"
    /\ LastRender(event.trace).text = SelectCategoryText

\* C3 as stated: a free text holding one of the three phrasings gets the
\* most-ordered-product answer, and no completion call is made.
C3_Original ==
    (/\ event.handler = "handle_text"
     /\ \E phrase \in {kw_producto_mas_pedido, kw_orden_mas_pedida,
                       kw_producto_mas_vendido} : Contains(event.data, phrase)) =>
        /\ CreatesOf(event.trace) = <<>>
        /\ RanQuery("select most ordered Product")
        /\ event.outcome = "ok" => ShowsMostOrderedAnswer("reply_text")

\* C3, amended: a free text holding one of the three phrasings and not
\* holding "menú" in any letter case is routed to the most-ordered-product
\* answer (rendered whenever the query returns), and no completion call is
\* made. With "menú" in it the text gets the category listing instead.
C3_MostOrderedRoute ==
    (/\ event.handler = "handle_text"
     /\ ~HoldsInAnyCase(event.data, kw_menu)
     /\ \E phrase \in {kw_producto_mas_pedido, kw_orden_mas_pedida,
                       kw_producto_mas_vendido} : Contains(event.data, phrase)) =>
        /\ CreatesOf(event.trace) = <<>>
        /\ RanQuery("select most ordered Product")
        /\ event.outcome = "ok" => ShowsMostOrderedAnswer("reply_text")

\* "tu producto más vendido" got the answer naming a product
C3_Witness ==
    /\ event.handler = "handle_text"
    /\ event.data = msg_producto_mas_vendido
    /\ event.outcome = "ok"
    /\ \E p \in db.Product : LastRender(event.trace).text = most_ordered_text(p)

\* C4: the prompt of every completion call is the system turn followed by
\* the chat's whole stored history (the new user turn last), in append
\* order; it holds the system turn once, whatever was called before; and no
\* stored history ever holds a system turn.
C4_Prompt ==
    [][\A c \in Chats :
          /\ CompletionStep(c) =>
                LET creates == CreatesOf(event'.trace)
                    messages == creates[1].messages
                IN  /\ Len(creates) = 1
                    /\ messages = <<system_context>>
                                  \o Append(History(chat_data[c]),
                                            Turn("user", event'.data))
                    /\ Tail(messages)
                         = SubSeq(History(chat_data'[c]), 1, Len(messages) - 1)
                    /\ Cardinality({i \in 1..Len(messages) :
                                       messages[i].role = "system"}) = 1
          /\ \A i \in 1..Len(History(chat_data'[c])) :
                History(chat_data'[c])[i].role # "system"]_vars

\* a completion call made after an earlier call in the same chat
C4_Witness ==
    /\ event.handler = "handle_text"
    /\ CreatesOf(event.trace) # <<>>
    /\ Len(CreatesOf(event.trace)[1].messages) >= 3
    /\ CreatesOf(event.trace)[1].messages[1] = system_context

\* C5: when the completion call returns, the chat's history is the history
\* before the event, then a user turn holding the message, then an assistant
\* turn holding the returned content without the whitespace at its ends; the
\* reply sent is that assistant turn's content (the only message when the
\* send does not fail); and no event changes or removes an earlier turn.
C5_SuccessfulCompletion ==
    [][\A c \in Chats :
          LET old == History(chat_data[c])
              new == History(chat_data'[c])
          IN  /\ Len(old) <= Len(new) /\ SubSeq(new, 1, Len(old)) = old
              /\ (CompletionStep(c) /\ ~CreatesOf(event'.trace)[1].raised) =>
                    LET sent == RendersOf(event'.trace)
                    IN  /\ Len(new) = Len(old) + 2
                        /\ new[Len(old) + 1] = Turn("user", event'.data)
                        /\ new[Len(new)].role = "assistant"
                        /\ IsTrimOf(new[Len(new)].content,
                                    CreatesOf(event'.trace)[1].text)
                        /\ sent # <<>>
                        /\ sent[1].op = "reply_text"
                        /\ sent[1].text = new[Len(new)].content
                        /\ sent[1].reply_markup = NoMarkup
                        /\ ~sent[1].raised => Len(sent) = 1]_vars

\* a reply was stored and sent in a chat that already had a history, and the
\* content returned had whitespace to strip
C5_Witness ==
    /\ event.handler = "handle_text"
    /\ CreatesOf(event.trace) # <<>>
    /\ ~CreatesOf(event.trace)[1].raised
    /\ CreatesOf(event.trace)[1].text = <<" ", "s", "i", "\n">>
    /\ RendersOf(event.trace) = <<Render("reply_text", <<"s", "i">>, NoMarkup)>>
    /\ Len(History(chat_data[event.chat])) >= 3

\* C6: get_greeting gives the morning greeting for the hours 5..11, the
\* afternoon greeting for 12..17 and the night greeting for 0..4 and 18..23;
\* so 5, 12, 18 and 0 give morning, afternoon, night and night.
C6_Greeting ==
    (event.handler = "start" /\ event.origin # "none") =>
        LET g == event.trace[1]
        IN  /\ g.op = "get_greeting"
            /\ Len(g.text) = 1
            /\ clock \in {5, 6, 7, 8, 9, 10, 11} => g.text[1] = "Buenos días"
            /\ clock \in {12, 13, 14, 15, 16, 17} => g.text[1] = "Buenas tardes"
            /\ clock \in {0, 1, 2, 3, 4, 18, 19, 20, 21, 22, 23}
                   => g.text[1] = "Buenas noches"

\* start computed the night greeting at 18 h
C6_Witness ==
    /\ event.handler = "start"
    /\ event.origin = "message"
    /\ clock = 18
    /\ event.trace[1].text = <<"Buenas noches">>

\* C7: whenever the query of show_products returns, the screen shows one
\* button for each product whose categoryId is the id pressed, and for no
\* other product; when there is none (the id unknown or its category empty)
\* it shows the "no products" message, and the event ends without error.
C7_ProductsOfCategory ==
    \A id \in CategoryIds :
        (event.handler = "button" /\ event.data = tok_category(id)) =>
            /\ RanQuery("select Product")
            /\ event.outcome = "ok" =>
                  LET wanted == {p \in db.Product : p.categoryId = id}
                      r == LastRender(event.trace)
                      kb == r.reply_markup
                  IN  /\ Len(RendersOf(event.trace)) = 1
                      /\ r.op = "edit_message_text"
                      /\ IF wanted = {}
                         THEN r.text = NoProductsText /\ kb = NoMarkup
                         ELSE /\ r.text = SelectProductText
                              /\ Len(kb) = Cardinality(wanted) + 1
                              /\ {kb[i] : i \in 1..(Len(kb) - 1)}
                                   = {tok_product(p.id) : p \in wanted}
                              /\ kb[Len(kb)] = tok_return_categories

\* category 10 was listed with its one product while category 9 has another
C7_Witness ==
    /\ event.handler = "button"
    /\ event.data = tok_category(10)
    /\ event.outcome = "ok"
    /\ \E p, q \in db.Product : p.categoryId = 9 /\ q.categoryId = 10
    /\ Len(LastRender(event.trace).reply_markup) = 2

\* the order lines of product pid
LinesOf(pid) ==
    Cardinality({o \in db.OrderProducts : o.productId = pid})

\* C8: whenever the query of show_most_ordered_product returns, the answer
\* names a product no other product has more order lines than (P1, when P1
\* has three and P2 one); it is the "no information" message exactly when
\* there is no order line.
C8_MostOrdered ==
    <<"select most ordered Product">> \in ReturnedQueries(event.trace) =>
        /\ Len(RendersOf(event.trace)) = 1
        /\ LET r == LastRender(event.trace)
           IN  /\ r.text = NoMostOrderedText <=> db.OrderProducts = {}
               /\ db.OrderProducts # {} =>
                     \E p \in db.Product :
                         /\ r.text = most_ordered_text(p)
                         /\ \A q \in db.Product : LinesOf(q.id) <= LinesOf(p.id)
               /\ (/\ LinesOf(1) = 3
                   /\ LinesOf(2) = 1
                   /\ Cardinality(db.OrderProducts) = 4) =>
                     \E p \in db.Product : p.id = 1 /\ r.text = most_ordered_text(p)

\* with three order lines of P1 and one of P2 the answer named P1
C8_Witness ==
    /\ event.handler = "button"
    /\ event.data = tok_producto_mas_pedido
    /\ LinesOf(1) = 3
    /\ LinesOf(2) = 1
    /\ \E p \in db.Product :
           p.id = 1 /\ RendersOf(event.trace)
                         = <<Render("edit_message_text", most_ordered_text(p),
                                    <<tok_return_otros>>)>>

\* C9 as stated: the screen an event rendered carries a button whose press
\* renders a screen, the empty category list and the empty product list
\* included.
C9_NoTerminalScreen ==
    RendersOf(event.trace) # <<>> =>
        LET kb == LastRender(event.trace).reply_markup
        IN  \E i \in 1..Len(kb) :
                \E run \in button_runs(kb[i], db, clock) :
                    RendersOf(run.trace) # <<>>

\* the five leaves of the FAQ and the template each answers with
FaqLeaves ==
    {tok_tiempo_pedido, tok_producto_mas_pedido, tok_orden_mal,
     tok_app_no_abre, tok_info_proporcionada}

FaqAnswerKey(leaf) ==
    CASE leaf = tok_tiempo_pedido -> "tiempo_pedido_response"
      [] leaf = tok_orden_mal -> "orden_mal_response"
      [] leaf = tok_app_no_abre -> "app_no_abre_response"
      [] leaf = tok_info_proporcionada -> "info_proporcionada_response"

\* e rendered the FAQ root: n leaves, each answering with a "back to FAQ"
\* button, and "back to Start"
IsFaqRoot(e, n) ==
    /\ Len(RendersOf(e.trace)) = 1
    /\ LET r == LastRender(e.trace)
           kb == r.reply_markup
           leaves == {kb[i] : i \in 1..Len(kb)} \ {tok_return_start}
       IN  /\ r.op = "edit_message_text"
           /\ r.text = responses("other_questions_message")
           /\ \E i \in 1..Len(kb) : kb[i] = tok_return_start
           /\ Len(kb) = n + 1
           /\ Cardinality(leaves) = n
           /\ \A leaf \in leaves :
                 \A run \in button_runs(leaf, db, clock) :
                     run.outcome = "ok" =>
                         /\ RendersOf(run.trace) # <<>>
                         /\ LastRender(run.trace).reply_markup = <<tok_return_otros>>

\* e rendered the answer of leaf with the "back to FAQ" button
IsLeafAnswer(e, leaf) ==
    /\ e.handler = "button"
    /\ e.data = leaf
    /\ Len(RendersOf(e.trace)) = 1
    /\ LET r == LastRender(e.trace)
       IN  /\ r.op = "edit_message_text"
           /\ r.reply_markup = <<tok_return_otros>>
           /\ IF leaf = tok_producto_mas_pedido
              THEN \/ r.text = NoMostOrderedText
                   \/ \E p \in db.Product : r.text = most_ordered_text(p)
              ELSE r.text = responses(FaqAnswerKey(leaf))

\* the FAQ claim with n leaves, over one step
FaqStep(n) ==
    /\ (event'.handler = "button" /\ event'.data \in {tok_otros, tok_return_otros})
           => IsFaqRoot(event', n)
    /\ \A leaf \in FaqLeaves :
           (event'.handler = "button" /\ event'.data = leaf /\ event'.outcome = "ok")
               => IsLeafAnswer(event', leaf)
    /\ ((\E leaf \in FaqLeaves : IsLeafAnswer(event, leaf))
        /\ event'.handler = "button"
        /\ event'.chat = event.chat
        /\ event'.data = tok_return_otros)
           => IsFaqRoot(event', n)

\* C10 as stated: the FAQ root offers six leaf answers and "back to Start";
\* a leaf token renders its answer with "back to FAQ"; return_otros pressed
\* on a leaf renders the FAQ root again.
C10_Original ==
    [][FaqStep(6)]_vars

\* C10, amended: the FAQ root offers five leaf answers and "back to Start";
\* a leaf token renders its answer with "back to FAQ" (producto_mas_pedido
\* whenever its query returns); return_otros pressed on a leaf renders the
\* FAQ root again.
C10_Faq ==
    [][FaqStep(5)]_vars

\* the most-ordered leaf answered from a database with order lines
C10_Witness ==
    /\ IsLeafAnswer(event, tok_producto_mas_pedido)
    /\ db.OrderProducts # {}

---------------------------------------------------------------------------
\* The menu navigation.

\* event e is a press of the button carrying data
Pressed(e, data) ==
    e.handler = "button" /\ e.data = data

\* e ended with the Start screen: the greeting, then the menu message with
\* its three buttons
IsStartScreen(e, channel) ==
    /\ e.outcome = "ok"
    /\ Len(RendersOf(e.trace)) = 2
    /\ RendersOf(e.trace)[1] = Render(channel, responses("greeting_message"), NoMarkup)
    /\ RendersOf(e.trace)[2]
         = Render(channel, responses("menu_message"),
                  <<tok_menu, tok_pedido, tok_otros>>)

\* e ended with the category list of the database as its one message
IsCategoryList(e) ==
    /\ e.outcome = "ok"
    /\ Len(RendersOf(e.trace)) = 1
    /\ LET r == LastRender(e.trace)
           kb == r.reply_markup
       IN  IF db.Category = {}
           THEN r.text = NoCategoriesText /\ kb = NoMarkup
           ELSE /\ r.text = SelectCategoryText
                /\ Len(kb) = Cardinality(db.Category) + 1
                /\ {kb[i] : i \in 1..(Len(kb) - 1)}
                     = {tok_category(row.id) : row \in db.Category}
                /\ kb[Len(kb)] = tok_return_start

\* e ended with the product list of category id as its one message
IsProductList(e, id) ==
    /\ e.outcome = "ok"
    /\ Len(RendersOf(e.trace)) = 1
    /\ LET wanted == {p \in db.Product : p.categoryId = id}
           r == LastRender(e.trace)
           kb == r.reply_markup
       IN  IF wanted = {}
           THEN r.text = NoProductsText /\ kb = NoMarkup
           ELSE /\ r.text = SelectProductText
                /\ Len(kb) = Cardinality(wanted) + 1
                /\ {kb[i] : i \in 1..(Len(kb) - 1)}
                     = {tok_product(p.id) : p \in wanted}
                /\ kb[Len(kb)] = tok_return_categories

\* the buttons of the last message of e
ButtonsOf(e) ==
    IF RendersOf(e.trace) = <<>>
    THEN {}
    ELSE LET kb == LastRender(e.trace).reply_markup
         IN  {kb[i] : i \in 1..Len(kb)}

\* e ran the one statement stmt and ended well exactly when it returned,
\* without any message otherwise
RanOnly(e, stmt) ==
    /\ Queries(e.trace) = {<<stmt>>}
    /\ e.outcome = "ok" <=> ReturnedQueries(e.trace) = {<<stmt>>}
    /\ e.outcome # "ok" => RendersOf(e.trace) = <<>>

\* C11: pressing menu on the Start screen renders the category list;
\* pressing a category_<id> button of a non-empty category list renders the
\* product list of that category; pressing return_categories renders the
\* category list and pressing return_start renders the Start screen,
\* whatever the screens shown before (each list whenever its query returns).
C11_MenuNavigation ==
    [][ /\ ( /\ IsStartScreen(event, "reply_text") \/ IsStartScreen(event, "edit_text")
             /\ Pressed(event', tok_menu) )
            => /\ RanOnly(event', "select Category")
               /\ event'.outcome = "ok" => IsCategoryList(event')
        /\ \A id \in CategoryIds :
             ( /\ IsCategoryList(event)
               /\ tok_category(id) \in ButtonsOf(event)
               /\ Pressed(event', tok_category(id)) )
              => /\ RanOnly(event', "select Product")
                 /\ event'.outcome = "ok" => IsProductList(event', id)
        /\ Pressed(event', tok_return_categories)
            => /\ RanOnly(event', "select Category")
               /\ event'.outcome = "ok" => IsCategoryList(event')
        /\ Pressed(event', tok_return_start)
            => /\ IsStartScreen(event', "edit_text")
               /\ Queries(event'.trace) = {}
      ]_vars

\* the back button of a product list brought the list of two categories back
C11_Witness ==
    /\ Pressed(event, tok_return_categories)
    /\ IsCategoryList(event)
    /\ Cardinality(db.Category) = 2
    /\ db.Product # {}

\* C12: whenever the query of show_categories returns, the list has exactly
\* one button category_<id> for each category returned and no other
\* category button, and a press of that button makes button() run
\* show_products with the same id; when no category is returned the list is
\* the "no categories available" message.
C12_CategoryRoundTrip ==
    (Queries(event.trace) = {<<"select Category">>} /\ event.outcome = "ok") =>
        LET r == LastRender(event.trace)
            kb == r.reply_markup
        IN  /\ Len(RendersOf(event.trace)) = 1
            /\ IF db.Category = {}
               THEN r.text = NoCategoriesText /\ kb = NoMarkup
               ELSE /\ \A row \in db.Category :
                         Cardinality({i \in 1..Len(kb) :
                                         kb[i] = tok_category(row.id)}) = 1
                    /\ \A i \in 1..Len(kb) :
                         StartsWith(kb[i], category_prefix) =>
                             \E row \in db.Category :
                                 /\ kb[i] = tok_category(row.id)
                                 /\ button_runs(kb[i], db, clock)
                                      = {Run(p.outcome, <<Call("answer")>> \o p.trace) :
                                           p \in show_products("edit_message_text",
                                                               db, row.id)}

\* the menu button listed categories 9 and 10, each with a product
C12_Witness ==
    /\ Pressed(event, tok_menu)
    /\ event.outcome = "ok"
    /\ db.Category = {CategoryRow(9), CategoryRow(10)}
    /\ \A id \in CategoryIds : \E p \in db.Product : p.categoryId = id
    /\ Len(LastRender(event.trace).reply_markup) = 3

---------------------------------------------------------------------------
\* The order of the calls inside one event.

\* C13: in every button event, whatever the token (the unhandled ones
\* included), the callback is acknowledged once and before everything the
\* dispatch does: no session, no statement and no message comes before the
\* acknowledgement.
C13_AcknowledgedFirst ==
    event.handler = "button" =>
        /\ event.trace # <<>>
        /\ event.trace[1] = Call("answer")
        /\ \A i \in 2..Len(event.trace) : event.trace[i].op # "answer"

\* an unhandled product button was acknowledged and nothing else was done
C13_Witness ==
    /\ \E p \in db.Product : Pressed(event, tok_product(p.id))
    /\ event.trace = <<Call("answer")>>

\* the sessions opened and not yet closed before place i of trace
OpenSessions(trace, i) ==
    Cardinality({j \in 1..(i - 1) : trace[j].op = "session_open"})
    - Cardinality({j \in 1..(i - 1) : trace[j].op = "session_close"})

\* C14: in each of the three persistence operations the statement runs
\* inside a session that is released before the result is rendered: no
\* message is sent or edited and no completion is requested while a session
\* is open, and no event ends with a session open, failed statements
\* included.
C14_SessionReleased ==
    LET trace == event.trace
    IN  /\ \A i \in 1..Len(trace) :
             /\ (IsRender(trace[i]) \/ IsCreate(trace[i]))
                    => OpenSessions(trace, i) = 0
             /\ trace[i].op = "execute" => OpenSessions(trace, i) = 1
             /\ (trace[i].op = "execute" /\ ~trace[i].raised) =>
                    \E k \in (i + 1)..Len(trace) :
                        /\ IsRender(trace[k])
                        /\ \E j \in (i + 1)..(k - 1) :
                               trace[j].op = "session_close"
        /\ OpenSessions(trace, Len(trace) + 1) = 0

\* the most ordered product was answered to a free text after its session
\* was closed
C14_Witness ==
    /\ event.handler = "handle_text"
    /\ ReturnedQueries(event.trace) = {<<"select most ordered Product">>}
    /\ Len(event.trace) = 4
    /\ event.trace[3] = Call("session_close")
    /\ IsRender(event.trace[4])
    /\ event.trace[4].text # NoMostOrderedText

---------------------------------------------------------------------------
\* The histories.

\* C15: start on an update with neither a message nor a callback query
\* returns without sending or editing any message and without changing the
\* history of any chat.
C15_StartWithoutOrigin ==
    [][ (event'.handler = "start" /\ event'.origin = "none") =>
            /\ event'.outcome = "ok"
            /\ RendersOf(event'.trace) = <<>>
            /\ chat_data' = chat_data
      ]_vars

\* start returned on such an update while a chat had a history
C15_Witness ==
    /\ event.handler = "start"
    /\ event.origin = "none"
    /\ event.trace = <<Call("logger.warning")>>
    /\ \E c \in Chats : Len(History(chat_data[c])) = 2

\* C16: an event of chat c leaves the history of every other chat as it
\* was, in every interleaving of the chats' events, and the prompt it sends
\* to the completion is built from the history of chat c alone.
C16_OwnHistoryOnly ==
    [][ /\ \A x \in Chats : x # event'.chat => chat_data'[x] = chat_data[x]
        /\ \A i \in 1..Len(CreatesOf(event'.trace)) :
               Tail(CreatesOf(event'.trace)[i].messages)
                 = Append(History(chat_data[event'.chat]),
                          Turn("user", event'.data))
      ]_vars

\* chat 2 asked the completion while chat 1 held another history
C16_Witness ==
    /\ event.handler = "handle_text"
    /\ event.chat = 2
    /\ CreatesOf(event.trace) # <<>>
    /\ History(chat_data[1]) # <<>>
    /\ History(chat_data[1])[1] # History(chat_data[2])[1]

\* a statement of event e raised
PersistenceFailed(e) ==
    \E i \in 1..Len(e.trace) : e.trace[i].op = "execute" /\ e.trace[i].raised

\* C17: an event, button press or keyword-routed text, whose statement
\* raises ends in failure: nothing is sent or edited, neither a result nor
\* the apology, and every chat's history is unchanged, as is everything
\* else the handlers read; after it the same chat and the other chats can
\* start again, press the button again and send a keyword again.
C17_PersistenceFailure ==
    /\ [][ PersistenceFailed(event') =>
               /\ event'.handler \in {"button", "handle_text"}
               /\ event'.outcome = "raised"
               /\ RendersOf(event'.trace) = <<>>
               /\ CreatesOf(event'.trace) = <<>>
               /\ <<db, chat_data, clock>>' = <<db, chat_data, clock>>
         ]_vars
    /\ [](PersistenceFailed(event) =>
             \A c \in Chats :
                 /\ ENABLED start(c, "message")
                 /\ ENABLED button(c, tok_menu)
                 /\ ENABLED handle_text(c, msg_el_menu, MaxTurns))

\* the statement of a keyword-routed text raised in a chat with a history
C17_Witness ==
    /\ event.handler = "handle_text"
    /\ PersistenceFailed(event)
    /\ event.outcome = "raised"
    /\ History(chat_data[event.chat]) # <<>>

\* the apology is among the messages of event e
SentApology(e) ==
    \E i \in 1..Len(RendersOf(e.trace)) : RendersOf(e.trace)[i].text = Apology

\* C18: whenever handle_text sends the apology, the history of the chat
\* gained no assistant turn in that event: its last stored turn is the user
\* turn of the event, also when it was the sending of the reply that failed
\* after a successful completion.
C18_ApologyWithoutAssistantTurn ==
    (event.handler = "handle_text" /\ SentApology(event)) =>
        LET history == History(chat_data[event.chat])
        IN  /\ history # <<>>
            /\ history[Len(history)] = Turn("user", event.data)

\* C19: every stored history holds user and assistant turns only, each
\* assistant turn comes right after a user turn, and so no history begins
\* with an assistant turn; two user turns may be adjacent.
C19_TurnOrder ==
    \A c \in Chats :
        /\ DOMAIN chat_data[c] \subseteq {"conversation_history"}
        /\ LET history == History(chat_data[c])
           IN  \A i \in 1..Len(history) :
                   /\ history[i].role \in {"user", "assistant"}
                   /\ history[i].role = "assistant" =>
                          /\ i > 1
                          /\ history[i - 1].role = "user"

\* a chat holds the user turn of a failed attempt, then a user turn and its
\* answer
C19_Witness ==
    \E c \in Chats :
        LET history == History(chat_data[c])
        IN  /\ Len(history) = 3
            /\ history[1].role = "user"
            /\ history[2].role = "user"
            /\ history[3].role = "assistant"

\* C20: start, every button press (return_start and the unhandled
\* product_<id> included) and every free text answered by a keyword route
\* leave the history of every chat unchanged; a history changes only in a
\* free text that reaches the completion, and there it always does.
C20_HistoryFrame ==
    [][ /\ ( \/ event'.handler \in {"start", "button"}
             \/ /\ event'.handler = "handle_text"
                /\ \/ Contains(Lower(event'.data), kw_menu)
                   \/ \E keyword \in most_ordered_keywords :
                          Contains(Lower(event'.data), keyword) )
            => /\ chat_data' = chat_data
               /\ CreatesOf(event'.trace) = <<>>
        /\ chat_data' # chat_data <=>
               /\ event'.handler = "handle_text"
               /\ CreatesOf(event'.trace) # <<>>
      ]_vars

\* an unhandled product button was pressed in a chat that holds a history
C20_Witness ==
    /\ Pressed(event, tok_product(1))
    /\ Len(History(chat_data[event.chat])) >= 1
    /\ RendersOf(event.trace) = <<>>

====
